---- MODULE Spec2Model ----
(***************************************************************************)
(* Model of terraform/functions/cluster_protection/main.py: the cloud      *)
(* function that waits for a GKE cluster to be ready and installs the      *)
(* Falcon operator and a FalconDeployment resource on it.                  *)
(*                                                                         *)
(* An invocation of main is a process p.  Every remote call of main (the   *)
(* cluster status fetch, the manifest download, each Kubernetes API call)  *)
(* is one step, so that the cluster can change between two calls.          *)
(* Sequence indices are 1-based: Python's parts[8] is parts[9] here.       *)
(***************************************************************************)
EXTENDS Integers, Sequences, FiniteSets, TLC

\* main.py:27
MAX_CLUSTER_STATUS_CHECK_COUNT == 20

\* Bounds of the model.
MaxNameLen == 8        \* longest asset name, in characters
MaxPods == 2           \* most pods the operator namespace holds
MaxInvocations == 2    \* invocations of main delivered one after another
MaxDeployments == 1    \* FalconDeployment resources present before the first invocation
MaxCalls == 3          \* direct calls of the manifest builder
MaxConcFetches == 1    \* status fetches of an invocation that runs beside another

Procs == {1, 2}

VARIABLES
  \* ---- configuration, read from the environment at import (main.py:34-39)
  FALCON_AUTO_UPDATE,
  FALCON_UPDATE_POLICY,
  FALCON_SENSOR_VERSION,
  FALCON_SENSOR_TAGS,
  \* ---- the environment of a run
  faults,              \* the calls main makes (network, API, file system) may fail in this run
  \* ---- the remote cluster (Kubernetes API server state)
  namespace_exists,    \* the namespace 'falcon-operator' exists
  pods,                \* phases of the pods of 'falcon-operator', in list order
  falcon_deployments,  \* number of FalconDeployment custom resources
  \* ---- locals of an invocation of main
  pc,                            \* position in main
  cluster_status,                \* main.py:71
  cluster_status_check_counter,  \* main.py:70
  ns_response,                   \* answer of read_namespace: "none", "ok", "404", "500"
  pod_items,                     \* len(pod_list.items) seen by check_resources_deployed, -1 before
  deployments,                   \* len(deployments) seen by deploy_falcon_manifest, -1 before
  fd_response,                   \* answer of list_cluster_custom_object: "none", "ok", "404", "500"
  is_autopilot,                  \* main.py:62, or the argument of a direct call of the builder
  falcon_deployment_manifest,    \* main.py:89, NoManifest before
  node_sensor_manifest,          \* text of the file node_sensor_manifest.yaml, "" before
  builds,                        \* the direct calls of the builder: flag, manifest returned, file content left
  \* ---- observations of an invocation (what a test double would record)
  nsegs,        \* slash-delimited segments of the asset name, 9 = nine or more, 0 = no name decoded
  fetches,      \* get_cluster calls
  slept,        \* a time.sleep(60) call was made
  only_provisioning,  \* every status fetched so far was PROVISIONING
  downloads,    \* urlretrieve calls
  writes,       \* apply and create calls, in the order issued
  outcome,      \* "none", "unmanageable" (return at line 79), "protected" (return at 98 or 360), "raised"
  fresh,        \* at the start of the invocation: namespace absent and no FalconDeployment
  prior_protected,  \* at the start of the invocation: earlier invocations that ended "protected"
  running_listed,   \* a pod listing of the wait loop held a pod in phase Running
  raised_at,        \* the step whose error main re-raised, "none" if none
  last_call,        \* the last of the calls get_cluster ("fetch") and time.sleep(60) ("sleep"), "none" before
  \* ---- observations over all invocations
  initially_fresh,  \* before the first invocation: namespace absent and no FalconDeployment
  invocations,  \* invocations started
  protected,    \* invocations that ended "protected"
  total_apply,
  total_create

config_vars ==
  <<FALCON_AUTO_UPDATE, FALCON_UPDATE_POLICY, FALCON_SENSOR_VERSION, FALCON_SENSOR_TAGS, faults>>
cluster_vars == <<namespace_exists, pods, falcon_deployments>>
local_vars == <<pc, cluster_status, cluster_status_check_counter, ns_response, pod_items, deployments, fd_response>>
obs_vars == <<nsegs, fetches, slept, only_provisioning, downloads, writes, outcome, fresh, prior_protected,
              running_listed, raised_at, last_call>>
total_vars == <<initially_fresh, invocations, protected, total_apply, total_create>>
manifest_vars == <<is_autopilot, falcon_deployment_manifest, node_sensor_manifest, builds>>
vars == <<config_vars, cluster_vars, local_vars, manifest_vars, obs_vars, total_vars>>

(***************************************************************************)
(* Asset names and str.split                                               *)
(***************************************************************************)
Chars == {"/", "a"}
AssetNames == UNION {[1..n -> Chars] : n \in 0..MaxNameLen}

\* str.split(sep): the pieces between the separators; "" splits into [""].
RECURSIVE SplitFrom(_, _, _, _)
SplitFrom(s, i, cur, acc) ==
  IF i > Len(s) THEN Append(acc, cur)
  ELSE IF s[i] = "/" THEN SplitFrom(s, i + 1, <<>>, Append(acc, cur))
  ELSE SplitFrom(s, i + 1, Append(cur, s[i]), acc)

split(s) == SplitFrom(s, 1, <<>>, <<>>)

\* Faulty variant: the bound check is off by one
IndexDefined_off_by_one(parts, i) == i <= Len(parts)

\* parts[i] of a Python list raises IndexError unless i < len(parts)
IndexDefined(parts, i) == i < Len(parts)

\* main.py:59-61: the three subscripts all have to be defined
IdentityExtracted(asset_name) ==
  /\ IndexDefined(split(asset_name), 8)
  /\ IndexDefined(split(asset_name), 4)
  /\ IndexDefined(split(asset_name), 6)

\* The segment count of an asset name, counted up to nine: the subscripts of
\* main.py:59-61 tell counts below nine apart and nothing above.
CountedSegments(asset_name) ==
  IF Len(split(asset_name)) > 9 THEN 9 ELSE Len(split(asset_name))

\* main.py:58-61 on every asset name: its segment count, and whether the
\* identity fields were extracted
Extractions ==
  {[nsegs |-> CountedSegments(asset_name), extracted |-> IdentityExtracted(asset_name)] :
     asset_name \in AssetNames}

(***************************************************************************)
(* Dictionaries: a dict is a function from its keys                        *)
(***************************************************************************)
EmptyDict == [k \in {} |-> ""]

\* d[k] = v
Put(d, k, v) == [x \in DOMAIN d \cup {k} |-> IF x = k THEN v ELSE d[x]]

\* d.update(e): the entries of e replace those of d, key by key at the top level
Update(d, e) == [x \in DOMAIN d \cup DOMAIN e |-> IF x \in DOMAIN e THEN e[x] ELSE d[x]]

(***************************************************************************)
(* configure_falcon_deployment_manifest                                    *)
(***************************************************************************)
AutoUpdateModes == {"off", "normal", "force"}
UpdatePolicies == {"", "policy-1"}
SensorVersions == {"", "7.20.0"}
SensorTags == {"", "team-a"}

FALCON_CLIENT_ID == "client-id"
FALCON_CLIENT_SECRET == "client-secret"

NoManifest == EmptyDict

\* main.py:116-131, 142: the base manifest and the empty node_config
BaseManifest ==
  [manifest |->
     [apiVersion |-> "falcon.crowdstrike.com/v1alpha1",
      kind |-> "FalconDeployment",
      metadata |-> [name |-> "falcon-deployment"],
      spec |-> [falcon_api |-> [client_id |-> FALCON_CLIENT_ID,
                                client_secret |-> FALCON_CLIENT_SECRET,
                                cloud_region |-> "us-2"],
                deployAdmissionController |-> TRUE,
                deployNodeSensor |-> TRUE,
                deployImageAnalyzer |-> FALSE,
                deployContainerSensor |-> FALSE]],
   node_config |-> EmptyDict]

\* main.py:134-139
autopilot_config ==
  [backend |-> "bpf",
   gke |-> [autopilot |-> TRUE],
   resources |-> [requests |-> [cpu |-> "750m", memory |-> "1.5Gi"]],
   tolerations |-> <<[effect |-> "NoSchedule", operator |-> "Equal",
                      key |-> "kubernetes.io/arch", value |-> "amd64"]>>]

\* main.py:145-154
AddAdvanced(st) ==
  IF FALCON_AUTO_UPDATE # "off" \/ FALCON_UPDATE_POLICY # ""
  THEN LET a0 == EmptyDict
           a1 == IF FALCON_AUTO_UPDATE # "off" THEN Put(a0, "autoUpdate", FALCON_AUTO_UPDATE) ELSE a0
           a2 == IF FALCON_UPDATE_POLICY # "" THEN Put(a1, "updatePolicy", FALCON_UPDATE_POLICY) ELSE a1
       IN  [st EXCEPT !.node_config = Put(@, "advanced", a2)]
  ELSE st

\* main.py:157-159
AddVersion(st) ==
  IF FALCON_SENSOR_VERSION # ""
  THEN [st EXCEPT !.node_config = Put(@, "version", FALCON_SENSOR_VERSION)]
  ELSE st

\* Faulty variant: the autopilot config replaces the node config
MergeAutopilot_replacing(st, autopilot) ==
  IF autopilot THEN [st EXCEPT !.node_config = autopilot_config] ELSE st

\* main.py:162-163
MergeAutopilot(st, autopilot) ==
  IF autopilot THEN [st EXCEPT !.node_config = Update(@, autopilot_config)] ELSE st

\* Faulty variant: the tags are merged into the node section
AddTags_into_node(st) ==
  IF FALCON_SENSOR_TAGS # ""
  THEN [st EXCEPT !.node_config = Put(@, "tags", FALCON_SENSOR_TAGS)]
  ELSE st

\* main.py:166-170
AddTags(st) ==
  IF FALCON_SENSOR_TAGS # ""
  THEN LET spec0 == st.manifest.spec
           spec1 == IF "falcon" \notin DOMAIN spec0 THEN Put(spec0, "falcon", EmptyDict) ELSE spec0
           spec2 == Put(spec1, "falcon", Put(spec1["falcon"], "tags", FALCON_SENSOR_TAGS))
       IN  [st EXCEPT !.manifest = Put(@, "spec", spec2)]
  ELSE st

\* main.py:173
AddNodeConfig(st) ==
  [st EXCEPT !.manifest = Put(@, "spec", Put(@["spec"], "falconNodeSensor", [node |-> st.node_config]))]

(***************************************************************************)
(* yaml.dump and the file written                                          *)
(***************************************************************************)
\* Every key of the manifest, in the order yaml.dump sorts keys (code points).
KeyOrder ==
  <<"advanced", "apiVersion", "autoUpdate", "autopilot", "backend", "client_id", "client_secret",
    "cloud_region", "cpu", "deployAdmissionController", "deployContainerSensor",
    "deployImageAnalyzer", "deployNodeSensor", "effect", "falcon", "falconNodeSensor",
    "falcon_api", "gke", "key", "kind", "memory", "metadata", "name", "node", "operator",
    "requests", "resources", "spec", "tags", "tolerations", "updatePolicy", "value", "version">>

\* The keys whose values are mappings, lists of mappings, booleans; the rest are strings.
MappingKeys ==
  {"metadata", "spec", "falcon_api", "falcon", "falconNodeSensor", "node", "advanced", "gke",
   "resources", "requests"}
ListKeys == {"tolerations"}
BoolKeys ==
  {"deployAdmissionController", "deployContainerSensor", "deployImageAnalyzer", "deployNodeSensor",
   "autopilot"}

RECURSIVE Indent(_)
\* The indentation of a line at a depth: two spaces a level.
Indent(depth) == IF depth = 0 THEN "" ELSE "  " \o Indent(depth - 1)

\* The keys of mapping d, sorted.
SortedKeys(d) ==
  LET Present(k) == k \in DOMAIN d
  IN  SelectSeq(KeyOrder, Present)

RECURSIVE DumpFrom(_, _, _, _)
RECURSIVE DumpItems(_, _, _)
RECURSIVE DumpEntry(_, _, _, _)

\* The text of key k with value v at a depth, in block style; lead is what
\* stands before the key (the indentation, or the "- " of a list item).
DumpEntry(k, v, depth, lead) ==
  IF k \in MappingKeys
  THEN IF DOMAIN v = {}
       THEN lead \o k \o ": {}\n"
       ELSE lead \o k \o ":\n" \o DumpFrom(v, depth + 1, 1, Indent(depth + 1))
  ELSE IF k \in ListKeys
  THEN IF Len(v) = 0
       THEN lead \o k \o ": []\n"
       ELSE lead \o k \o ":\n" \o DumpItems(v, depth, 1)
  ELSE IF k \in BoolKeys
  THEN lead \o k \o ": " \o (IF v THEN "true" ELSE "false") \o "\n"
  ELSE lead \o k \o ": " \o v \o "\n"

\* The text of mapping d from the i-th of its sorted keys on.
DumpFrom(d, depth, i, lead) ==
  LET keys == SortedKeys(d)
  IN  IF i > Len(keys) THEN ""
      ELSE DumpEntry(keys[i], d[keys[i]], depth, lead) \o DumpFrom(d, depth, i + 1, Indent(depth))

\* The text of the items of a list from the j-th on: the dash of an item
\* stands at the depth of the list's key, the item's keys one level deeper.
DumpItems(items, depth, j) ==
  IF j > Len(items) THEN ""
  ELSE DumpFrom(items[j], depth + 1, 1, Indent(depth) \o "- ") \o DumpItems(items, depth, j + 1)

\* main.py:176: yaml.dump(manifest), block style, keys sorted
yaml_dump(manifest) == DumpFrom(manifest, 0, 1, "")

\* Faulty variant: the file is opened for appending
WriteFile_appending(old, content) == old \o content

\* main.py:177-178: open(..., "w") truncates, write puts the content
WriteFile(old, content) == content

\* main.py:105-181: the manifest returned
configure_falcon_deployment_manifest(autopilot) ==
  AddNodeConfig(AddTags(MergeAutopilot(AddVersion(AddAdvanced(BaseManifest)), autopilot))).manifest

(***************************************************************************)
(* The readiness poll                                                      *)
(***************************************************************************)
\* Cluster.Status names of google.cloud.container_v1, RECONCILING included
ClusterStatuses ==
  {"STATUS_UNSPECIFIED", "PROVISIONING", "RUNNING", "RECONCILING", "STOPPING", "ERROR", "DEGRADED"}

\* Faulty variant: DEGRADED is not treated as unmanageable
Unmanageable_without_degraded(status) == status \in {"STOPPING", "ERROR", "STATUS_UNSPECIFIED"}

\* main.py:77
Unmanageable(status) == status \in {"STOPPING", "ERROR", "DEGRADED", "STATUS_UNSPECIFIED"}

\* Faulty variant: the sleep is taken on RUNNING too
Sleeps_on_running(status) == status \in {"PROVISIONING", "RUNNING"}

\* main.py:80-82
Sleeps(status) == status \in {"PROVISIONING"}

\* main.py:72
PollCondition(status, counter) ==
  status # "RUNNING" /\ counter <= MAX_CLUSTER_STATUS_CHECK_COUNT

(***************************************************************************)
(* Kubernetes helpers                                                      *)
(***************************************************************************)
PodPhases == {"Pending", "Running"}

\* Faulty variants: an empty pod list counts as deployed; one pod does not
PodsDeployed_when_empty(n) == n >= 0
PodsDeployed_above_one(n) == n > 1

\* main.py:215
PodsDeployed(n) == n > 0

\* Faulty variants: no pod counts as ready; any listed pod does, whatever its phase
check_pods_are_ready_never(pod_list) == FALSE
check_pods_are_ready_any_phase(pod_list) == Len(pod_list) > 0

\* main.py:236-243
check_pods_are_ready(pod_list) == \E i \in 1..Len(pod_list) : pod_list[i] = "Running"

\* Faulty variants: no API error is taken for "not found"; every one is
NotFound_never(response) == FALSE
NotFound_any_error(response) == response # "ok"

\* main.py:208, 322: e.status == 404
NotFound(response) == response = "404"

\* Faulty variants: the create branch is always taken; the test is inverted
NoDeployments_always(n) == n >= 0
NoDeployments_inverted(n) == n # 0

\* main.py:347
NoDeployments(n) == n = 0

(***************************************************************************)
(* Initial states                                                          *)
(***************************************************************************)
\* The pod lists, Running pods first: main looks only at the length of the
\* list and at whether some phase is Running, so one order stands for all.
PodLists ==
  {pod_list \in UNION {[1..n -> PodPhases] : n \in 0..MaxPods} :
     \A i, j \in 1..Len(pod_list) : (i < j /\ pod_list[j] = "Running") => pod_list[i] = "Running"}

\* The configurations the deployment runs are checked with: the defaults of
\* main.py:36-39 (two invocations at once, the fair runs), and every setting
\* given (invocations one after another); the builder is checked with all.
DefaultConfig == <<"off", "", "", "">>
FullConfig == <<"normal", "policy-1", "7.20.0", "team-a">>
AllConfigs == AutoUpdateModes \X UpdatePolicies \X SensorVersions \X SensorTags

ConfigIs(c) ==
  /\ FALCON_AUTO_UPDATE = c[1]
  /\ FALCON_UPDATE_POLICY = c[2]
  /\ FALCON_SENSOR_VERSION = c[3]
  /\ FALCON_SENSOR_TAGS = c[4]

InitRest ==
  /\ namespace_exists \in BOOLEAN
  /\ pods \in PodLists
  /\ (~namespace_exists => pods = <<>>)
  /\ falcon_deployments \in 0..MaxDeployments
  /\ (~namespace_exists => falcon_deployments = 0)
  /\ pc = [p \in Procs |-> "idle"]
  /\ cluster_status = [p \in Procs |-> ""]
  /\ cluster_status_check_counter = [p \in Procs |-> 0]
  /\ ns_response = [p \in Procs |-> "none"]
  /\ pod_items = [p \in Procs |-> -1]
  /\ deployments = [p \in Procs |-> -1]
  /\ fd_response = [p \in Procs |-> "none"]
  /\ is_autopilot = [p \in Procs |-> FALSE]
  /\ falcon_deployment_manifest = [p \in Procs |-> NoManifest]
  /\ node_sensor_manifest = ""
  /\ builds = <<>>
  /\ nsegs = [p \in Procs |-> 0]
  /\ fetches = [p \in Procs |-> 0]
  /\ slept = [p \in Procs |-> FALSE]
  /\ only_provisioning = [p \in Procs |-> TRUE]
  /\ downloads = [p \in Procs |-> 0]
  /\ writes = [p \in Procs |-> <<>>]
  /\ outcome = [p \in Procs |-> "none"]
  /\ fresh = [p \in Procs |-> FALSE]
  /\ prior_protected = [p \in Procs |-> 0]
  /\ running_listed = [p \in Procs |-> FALSE]
  /\ raised_at = [p \in Procs |-> "none"]
  /\ last_call = [p \in Procs |-> "none"]
  /\ initially_fresh = (~namespace_exists /\ falcon_deployments = 0)
  /\ invocations = 0
  /\ protected = 0
  /\ total_apply = 0
  /\ total_create = 0

Init ==
  /\ ConfigIs(FullConfig)
  /\ faults = TRUE
  /\ InitRest

(***************************************************************************)
(* main                                                                    *)
(***************************************************************************)
\* Faulty variant: the error is swallowed and the failed step is run again
Raise_and_retry(p) == UNCHANGED <<pc, outcome, raised_at>>

\* The except clause of main (100-102) logs and re-raises: the invocation ends.
Raise(p) ==
  /\ faults
  /\ pc' = [pc EXCEPT ![p] = "done"]
  /\ outcome' = [outcome EXCEPT ![p] = "raised"]
  /\ raised_at' = [raised_at EXCEPT ![p] = pc[p]]

\* A normal return of main after the deployment steps (line 98).
ReturnProtected(p) ==
  /\ pc' = [pc EXCEPT ![p] = "done"]
  /\ outcome' = [outcome EXCEPT ![p] = "protected"]
  /\ protected' = protected + 1
  /\ UNCHANGED raised_at

\* The step goes on to the position next.
Goto(p, next) ==
  /\ pc' = [pc EXCEPT ![p] = next]
  /\ UNCHANGED <<outcome, raised_at>>

\* main.py:54-71: decode the payload, extract the identity, reset the poll.
main_start(p) ==
  /\ pc[p] \in {"idle", "done"}
  /\ invocations < MaxInvocations
  /\ invocations' = invocations + 1
  /\ cluster_status' = [cluster_status EXCEPT ![p] = ""]
  /\ cluster_status_check_counter' = [cluster_status_check_counter EXCEPT ![p] = 0]
  /\ ns_response' = [ns_response EXCEPT ![p] = "none"]
  /\ pod_items' = [pod_items EXCEPT ![p] = -1]
  /\ deployments' = [deployments EXCEPT ![p] = -1]
  /\ fd_response' = [fd_response EXCEPT ![p] = "none"]
  /\ is_autopilot' = [is_autopilot EXCEPT ![p] = TRUE]
  /\ falcon_deployment_manifest' = [falcon_deployment_manifest EXCEPT ![p] = NoManifest]
  /\ fetches' = [fetches EXCEPT ![p] = 0]
  /\ slept' = [slept EXCEPT ![p] = FALSE]
  /\ only_provisioning' = [only_provisioning EXCEPT ![p] = TRUE]
  /\ downloads' = [downloads EXCEPT ![p] = 0]
  /\ writes' = [writes EXCEPT ![p] = <<>>]
  /\ fresh' = [fresh EXCEPT ![p] = ~namespace_exists /\ falcon_deployments = 0]
  /\ prior_protected' = [prior_protected EXCEPT ![p] = protected]
  /\ running_listed' = [running_listed EXCEPT ![p] = FALSE]
  /\ last_call' = [last_call EXCEPT ![p] = "none"]
  /\ \/ \* base64, JSON or key error at lines 56-58
        /\ nsegs' = [nsegs EXCEPT ![p] = 0]
        /\ pc' = [pc EXCEPT ![p] = "done"]
        /\ outcome' = [outcome EXCEPT ![p] = "raised"]
        /\ raised_at' = [raised_at EXCEPT ![p] = "decode"]
     \/ \E x \in Extractions :
          /\ nsegs' = [nsegs EXCEPT ![p] = x.nsegs]
          /\ IF x.extracted
             THEN /\ pc' = [pc EXCEPT ![p] = "poll"]
                  /\ outcome' = [outcome EXCEPT ![p] = "none"]
                  /\ raised_at' = [raised_at EXCEPT ![p] = "none"]
             ELSE /\ pc' = [pc EXCEPT ![p] = "done"]
                  /\ outcome' = [outcome EXCEPT ![p] = "raised"]
                  /\ raised_at' = [raised_at EXCEPT ![p] = "identity"]
  /\ UNCHANGED <<config_vars, cluster_vars, node_sensor_manifest, builds, initially_fresh, protected,
                 total_apply, total_create>>

\* main.py:72-85: one iteration of the poll loop.
main_poll(p) ==
  /\ pc[p] = "poll"
  /\ PollCondition(cluster_status[p], cluster_status_check_counter[p])
  /\ fetches' = [fetches EXCEPT ![p] = @ + 1]
  /\ \/ \* get_cluster raises
        /\ Raise(p)
        /\ last_call' = [last_call EXCEPT ![p] = "fetch"]
        /\ UNCHANGED <<cluster_status, cluster_status_check_counter, slept, only_provisioning>>
     \/ \E status \in ClusterStatuses :
          /\ cluster_status' = [cluster_status EXCEPT ![p] = status]
          /\ only_provisioning' = [only_provisioning EXCEPT ![p] = @ /\ status = "PROVISIONING"]
          /\ IF Unmanageable(status)
             THEN /\ pc' = [pc EXCEPT ![p] = "done"]
                  /\ outcome' = [outcome EXCEPT ![p] = "unmanageable"]
                  /\ last_call' = [last_call EXCEPT ![p] = "fetch"]
                  /\ UNCHANGED <<cluster_status_check_counter, slept, raised_at>>
             ELSE /\ slept' = [slept EXCEPT ![p] = @ \/ Sleeps(status)]
                  /\ last_call' = [last_call EXCEPT ![p] = IF Sleeps(status) THEN "sleep" ELSE "fetch"]
                  /\ cluster_status_check_counter' = [cluster_status_check_counter EXCEPT ![p] = @ + 1]
                  /\ UNCHANGED <<pc, outcome, raised_at>>
  /\ UNCHANGED <<config_vars, manifest_vars, cluster_vars, ns_response, pod_items, deployments, fd_response,
                 nsegs, downloads, writes, fresh, prior_protected, running_listed, total_vars>>

\* main.py:72, 87: the loop condition is false, main goes on to the manifests.
main_poll_exit(p) ==
  /\ pc[p] = "poll"
  /\ ~PollCondition(cluster_status[p], cluster_status_check_counter[p])
  /\ pc' = [pc EXCEPT ![p] = "download"]
  /\ UNCHANGED <<config_vars, manifest_vars, cluster_vars, cluster_status, cluster_status_check_counter,
                 ns_response, pod_items, deployments, fd_response, obs_vars, total_vars>>

\* What a step of main leaves alone when it changes only pc, outcome and raised_at.
OnlyControl ==
  UNCHANGED <<config_vars, cluster_vars, cluster_status, cluster_status_check_counter, ns_response,
              pod_items, deployments, fd_response, manifest_vars, nsegs, fetches, slept,
              only_provisioning, downloads, writes, fresh, prior_protected, running_listed,
              last_call, total_vars>>

\* main.py:88, 246-252
download_operator_manifest(p) ==
  /\ pc[p] = "download"
  /\ downloads' = [downloads EXCEPT ![p] = @ + 1]
  /\ \/ Raise(p)
     \/ Goto(p, "configure")
  /\ UNCHANGED <<config_vars, manifest_vars, cluster_vars, cluster_status, cluster_status_check_counter,
                 ns_response, pod_items, deployments, fd_response, nsegs, fetches, slept,
                 only_provisioning, writes, fresh, prior_protected, running_listed, last_call,
                 total_vars>>

\* main.py:116-181: the builder makes the manifest from fresh dicts, dumps it
\* into node_sensor_manifest.yaml and returns it.
Build(p, autopilot) ==
  LET manifest == configure_falcon_deployment_manifest(autopilot)
      written == WriteFile(node_sensor_manifest, yaml_dump(manifest))
  IN  /\ falcon_deployment_manifest' = [falcon_deployment_manifest EXCEPT ![p] = manifest]
      /\ node_sensor_manifest' = written

\* main.py:89, 105-181: build the agent manifest; writing it may fail.
main_configure(p) ==
  /\ pc[p] = "configure"
  /\ \/ \* the file cannot be opened for writing
        /\ Raise(p)
        /\ UNCHANGED <<falcon_deployment_manifest, node_sensor_manifest>>
     \/ /\ Build(p, is_autopilot[p])
        /\ Goto(p, "kube")
  /\ UNCHANGED <<config_vars, is_autopilot, builds, cluster_vars, cluster_status,
                 cluster_status_check_counter, ns_response, pod_items, deployments, fd_response,
                 nsegs, fetches, slept, only_provisioning, downloads, writes, fresh,
                 prior_protected, running_listed, last_call, total_vars>>

\* main.py:92: get_kube_clients(cluster)
main_get_kube_clients(p) ==
  /\ pc[p] = "kube"
  /\ \/ Raise(p)
     \/ Goto(p, "read_namespace")
  /\ OnlyControl

(***************************************************************************)
(* deploy_operator                                                         *)
(***************************************************************************)
\* What read_namespace can answer: the namespace, 404 when there is none, or
\* another API error.
NamespaceAnswers == (IF namespace_exists THEN {"ok"} ELSE {"404"}) \cup {"500"}

\* main.py:203-211: check_resources_deployed, the namespace read.
read_namespace(p) ==
  /\ pc[p] = "read_namespace"
  /\ \E response \in NamespaceAnswers :
       /\ ns_response' = [ns_response EXCEPT ![p] = response]
       /\ IF response = "ok" THEN Goto(p, "list_pods")
          ELSE IF NotFound(response) THEN Goto(p, "apply")
          ELSE Raise(p)
  /\ UNCHANGED <<config_vars, manifest_vars, cluster_vars, cluster_status, cluster_status_check_counter,
                 pod_items, deployments, fd_response, nsegs, fetches, slept, only_provisioning,
                 downloads, writes, fresh, prior_protected, running_listed, last_call, total_vars>>

\* main.py:213-221, 267-270: check_resources_deployed, the pod list, and the branch on its result.
list_pods_deployed(p) ==
  /\ pc[p] = "list_pods"
  /\ \/ /\ Raise(p)
        /\ UNCHANGED pod_items
     \/ /\ pod_items' = [pod_items EXCEPT ![p] = Len(pods)]
        /\ Goto(p, IF PodsDeployed(Len(pods)) THEN "wait_pods" ELSE "apply")
  /\ UNCHANGED <<config_vars, manifest_vars, cluster_vars, cluster_status, cluster_status_check_counter,
                 ns_response, deployments, fd_response, nsegs, fetches, slept, only_provisioning,
                 downloads, writes, fresh, prior_protected, running_listed, last_call, total_vars>>

\* main.py:271-278: utils.create_from_yaml.  A failed apply may have created the
\* namespace before it failed.
apply_operator(p) ==
  /\ pc[p] = "apply"
  /\ writes' = [writes EXCEPT ![p] = Append(@, "apply")]
  /\ total_apply' = total_apply + 1
  /\ \/ /\ Raise(p)
        /\ namespace_exists' \in {namespace_exists, TRUE}
     \/ /\ namespace_exists' = TRUE
        /\ Goto(p, "wait_pods")
  /\ UNCHANGED <<config_vars, manifest_vars, pods, falcon_deployments, cluster_status,
                 cluster_status_check_counter, ns_response, pod_items, deployments, fd_response,
                 nsegs, fetches, slept, only_provisioning, downloads, fresh, prior_protected,
                 running_listed, last_call, initially_fresh, invocations, protected, total_create>>

\* main.py:283-293: one pod listing of the wait loop (the first one included).
\* The loop has no counter: the step is there as long as main is in the loop.
wait_pods_ready(p) ==
  /\ pc[p] = "wait_pods"
  /\ \/ /\ Raise(p)
        /\ UNCHANGED running_listed
     \/ /\ running_listed' = [running_listed EXCEPT ![p] = @ \/ \E i \in 1..Len(pods) : pods[i] = "Running"]
        /\ IF check_pods_are_ready(pods)
           THEN Goto(p, "list_deployments")
           ELSE UNCHANGED <<pc, outcome, raised_at>>
  /\ UNCHANGED <<config_vars, manifest_vars, cluster_vars, cluster_status, cluster_status_check_counter,
                 ns_response, pod_items, deployments, fd_response, nsegs, fetches, slept,
                 only_provisioning, downloads, writes, fresh, prior_protected, last_call, total_vars>>

(***************************************************************************)
(* deploy_falcon_manifest                                                  *)
(***************************************************************************)
\* What list_cluster_custom_object can answer: the items, 404 (only when no
\* resource of the kind exists), or another API error.
DeploymentListAnswers == (IF falcon_deployments = 0 THEN {"ok", "404"} ELSE {"ok"}) \cup {"500"}

\* main.py:341-347, 296-326, 358-360: build the clients, list the
\* FalconDeployments and branch.
list_falcon_deployments(p) ==
  /\ pc[p] = "list_deployments"
  /\ \/ \* dynamic.DynamicClient(api_client) at 342 fails in its discovery
        /\ Raise(p)
        /\ UNCHANGED <<fd_response, deployments, protected>>
     \/ \E response \in DeploymentListAnswers :
          /\ fd_response' = [fd_response EXCEPT ![p] = response]
          /\ IF response = "ok" \/ NotFound(response)
             THEN LET n == IF response = "ok" THEN falcon_deployments ELSE 0
                  IN  /\ deployments' = [deployments EXCEPT ![p] = n]
                      /\ IF NoDeployments(n)
                         THEN Goto(p, "create") /\ UNCHANGED protected
                         ELSE ReturnProtected(p)
             ELSE /\ Raise(p)
                  /\ UNCHANGED <<deployments, protected>>
  /\ UNCHANGED <<config_vars, manifest_vars, cluster_vars, cluster_status, cluster_status_check_counter,
                 ns_response, pod_items, nsegs, fetches, slept, only_provisioning, downloads, writes,
                 fresh, prior_protected, running_listed, last_call, initially_fresh, invocations,
                 total_apply, total_create>>

\* main.py:350-357, 97-98: create the FalconDeployment 'falcon-deployment' in
\* 'falcon-operator'.  The API refuses a second resource of that name.
create_falcon_deployment(p) ==
  /\ pc[p] = "create"
  /\ \/ \* dynamic_client.resources.get at 351 fails: no create call is issued
        /\ Raise(p)
        /\ UNCHANGED <<writes, total_create, falcon_deployments, protected>>
     \/ /\ writes' = [writes EXCEPT ![p] = Append(@, "create")]
        /\ total_create' = total_create + 1
        /\ \/ /\ Raise(p)
              /\ UNCHANGED <<falcon_deployments, protected>>
           \/ /\ falcon_deployments = 0
              /\ falcon_deployments' = falcon_deployments + 1
              /\ ReturnProtected(p)
  /\ UNCHANGED <<config_vars, manifest_vars, namespace_exists, pods, cluster_status,
                 cluster_status_check_counter, ns_response, pod_items, deployments, fd_response,
                 nsegs, fetches, slept, only_provisioning, downloads, fresh, prior_protected,
                 running_listed, last_call, initially_fresh, invocations, total_apply>>

(***************************************************************************)
(* The cluster's own steps: the operator's pods are scheduled and start.   *)
(***************************************************************************)
PodScheduled ==
  /\ namespace_exists
  /\ Len(pods) < MaxPods
  /\ pods' = Append(pods, "Pending")
  /\ UNCHANGED <<config_vars, manifest_vars, namespace_exists, falcon_deployments, local_vars, obs_vars, total_vars>>

\* The first Pending pod of the list starts, which keeps the Running ones first.
PodStarted ==
  /\ \E i \in 1..Len(pods) :
       /\ pods[i] = "Pending"
       /\ \A j \in 1..(i - 1) : pods[j] = "Running"
       /\ pods' = [pods EXCEPT ![i] = "Running"]
  /\ UNCHANGED <<config_vars, manifest_vars, namespace_exists, falcon_deployments, local_vars, obs_vars, total_vars>>

(***************************************************************************)
(* Specification: invocations delivered one after another                  *)
(***************************************************************************)
Step(p) ==
  \/ main_start(p)
  \/ main_poll(p)
  \/ main_poll_exit(p)
  \/ download_operator_manifest(p)
  \/ main_configure(p)
  \/ main_get_kube_clients(p)
  \/ read_namespace(p)
  \/ list_pods_deployed(p)
  \/ apply_operator(p)
  \/ wait_pods_ready(p)
  \/ list_falcon_deployments(p)
  \/ create_falcon_deployment(p)

Next == Step(1) \/ PodScheduled \/ PodStarted

Spec == Init /\ [][Next]_vars

(***************************************************************************)
(* Specification: the manifest builder called on its own, on every         *)
(* configuration and either autopilot flag                                 *)
(***************************************************************************)
InitManifest ==
  /\ \E c \in AllConfigs : ConfigIs(c)
  /\ faults = TRUE
  /\ InitRest

\* main.py:105-181: a call of configure_falcon_deployment_manifest(is_autopilot)
call_configure(p, autopilot) ==
  /\ pc[p] = "idle"
  /\ Len(builds) < MaxCalls
  /\ is_autopilot' = [is_autopilot EXCEPT ![p] = autopilot]
  /\ Build(p, autopilot)
  /\ builds' = Append(builds, [is_autopilot |-> autopilot,
                                manifest |-> falcon_deployment_manifest'[p],
                                file |-> node_sensor_manifest'])
  /\ UNCHANGED <<config_vars, cluster_vars, local_vars, obs_vars, total_vars>>

NextManifest == \E autopilot \in BOOLEAN : call_configure(1, autopilot)

SpecManifest == InitManifest /\ [][NextManifest]_vars

(***************************************************************************)
(* Specification: two invocations of main at once on an unprotected cluster *)
(***************************************************************************)
InitConc ==
  /\ ConfigIs(DefaultConfig)
  /\ faults = TRUE
  /\ InitRest
  /\ ~namespace_exists

\* A step of invocation p, which is triggered once and fetches the status
\* MaxConcFetches times at most.
StepConc(p) == pc[p] # "done" /\ Step(p) /\ fetches'[p] <= MaxConcFetches

NextConc == (\E p \in Procs : StepConc(p)) \/ PodScheduled \/ PodStarted

SpecConc == InitConc /\ [][NextConc]_vars

(***************************************************************************)
(* Specification: main keeps running and none of its calls fails           *)
(***************************************************************************)
InitLive ==
  /\ ConfigIs(DefaultConfig)
  /\ faults = FALSE
  /\ InitRest

\* main is sequential code: a statement that can be executed is executed.
\* A pod listing that finds no Running pod leaves everything as it is, so
\* nothing forces the wait loop to make progress.
SpecLive == InitLive /\ [][Next]_vars /\ WF_vars(Step(1))


(***************************************************************************)
(* Properties                                                              *)
(***************************************************************************)
Count(seq, x) == Cardinality({i \in 1..Len(seq) : seq[i] = x})
applies(p) == Count(writes[p], "apply")
creates(p) == Count(writes[p], "create")

DeploymentSteps ==
  {"download", "configure", "kube", "read_namespace", "list_pods", "apply", "wait_pods",
   "list_deployments", "create"}

\* C1: a fetch that returns STOPPING, ERROR, DEGRADED or STATUS_UNSPECIFIED ends
\* the invocation at once with a normal return: that fetch is the last one (the
\* counter counts the fetches before it), and the invocation has made no
\* manifest download, no apply call and no create call.
C1_UnmanageableReturnsAtOnce ==
  \A p \in Procs :
    cluster_status[p] \in {"STOPPING", "ERROR", "DEGRADED", "STATUS_UNSPECIFIED"} =>
      /\ pc[p] = "done"
      /\ outcome[p] = "unmanageable"
      /\ fetches[p] = cluster_status_check_counter[p] + 1
      /\ downloads[p] = 0
      /\ writes[p] = <<>>

\* DEGRADED is fetched after earlier PROVISIONING fetches and main has returned.
C1_Witness ==
  \E p \in Procs :
    /\ cluster_status[p] = "DEGRADED"
    /\ fetches[p] > 2
    /\ slept[p]
    /\ outcome[p] = "unmanageable"

\* C2: when every fetch returned PROVISIONING and the retry budget is used up
\* (more than MAX_CLUSTER_STATUS_CHECK_COUNT fetches), main is not in any of the
\* deployment steps: it polls or it has ended.
C2_BudgetExhaustedNoDeployment ==
  \A p \in Procs :
    (only_provisioning[p] /\ fetches[p] > MAX_CLUSTER_STATUS_CHECK_COUNT) =>
      pc[p] \notin DeploymentSteps

\* C3: an invocation makes at most MAX_CLUSTER_STATUS_CHECK_COUNT status fetches.
C3_AtMostMaxFetches ==
  \A p \in Procs : fetches[p] <= MAX_CLUSTER_STATUS_CHECK_COUNT

\* C4: when the first fetch returns RUNNING, that fetch is the only one, no
\* sleep was taken, the loop can only be left (no further iteration), and main
\* goes on to the deployment steps: it does not return as unmanageable, and
\* the download has been made once main is past the manifest steps.
C4_RunningAtFirstFetch ==
  \A p \in Procs :
    (cluster_status[p] = "RUNNING" /\ cluster_status_check_counter[p] = 1) =>
      /\ fetches[p] = 1
      /\ ~slept[p]
      /\ outcome[p] # "unmanageable"
      /\ pc[p] = "poll" => (ENABLED main_poll_exit(p) /\ ~ENABLED main_poll(p))
      /\ pc[p] \in (DeploymentSteps \ {"download"}) => downloads[p] = 1
      /\ writes[p] # <<>> => downloads[p] = 1

\* RUNNING at the first fetch and the operator applied.
C4_Witness ==
  \E p \in Procs :
    /\ cluster_status[p] = "RUNNING"
    /\ fetches[p] = 1
    /\ pc[p] = "wait_pods"
    /\ applies(p) = 1

C6_NoCreateWhenDeploymentExists ==
  \A p \in Procs :
    deployments[p] >= 1 =>
      /\ creates(p) = 0
      /\ pc[p] = "done"
      /\ outcome[p] = "protected"

\* A FalconDeployment was listed and main returned.
C6_Witness ==
  \E p \in Procs :
    /\ deployments[p] >= 1
    /\ outcome[p] = "protected"
    /\ applies(p) = 1

\* C7 as stated: every invocation that returns normally from a cluster whose
\* namespace was absent and that had no FalconDeployment issued one apply and
\* then one create; no invocation issues two applies or two creates.
C7_NormalReturnDeploysOnce ==
  \A p \in Procs :
    /\ (pc[p] = "done" /\ outcome[p] \in {"unmanageable", "protected"} /\ fresh[p])
         => writes[p] = <<"apply", "create">>
    /\ applies(p) <= 1
    /\ creates(p) <= 1

\* C7 amended: every invocation that returns normally after the deployment
\* steps (not through the early return on an unmanageable status), from a
\* cluster whose namespace was absent and that had no FalconDeployment, issued
\* one apply and then one create; no invocation issues two applies or two creates.
C7_ProtectedReturnDeploysOnce ==
  \A p \in Procs :
    /\ (pc[p] = "done" /\ outcome[p] = "protected" /\ fresh[p])
         => writes[p] = <<"apply", "create">>
    /\ applies(p) <= 1
    /\ creates(p) <= 1

\* The scenario of the specification: PROVISIONING fetches, then RUNNING, fresh cluster.
C7_Witness ==
  \E p \in Procs :
    /\ fresh[p]
    /\ outcome[p] = "protected"
    /\ fetches[p] = 3
    /\ slept[p]
    /\ writes[p] = <<"apply", "create">>

\* C8: an asset name with fewer than 9 segments makes main raise before any
\* status fetch, manifest download, apply or create.
C8_ShortNameRaises ==
  \A p \in Procs :
    (nsegs[p] >= 1 /\ nsegs[p] < 9) =>
      /\ pc[p] = "done"
      /\ outcome[p] = "raised"
      /\ fetches[p] = 0
      /\ downloads[p] = 0
      /\ writes[p] = <<>>

\* An asset name of 8 segments was decoded and main raised.
C8_Witness ==
  \E p \in Procs : nsegs[p] = 8 /\ outcome[p] = "raised"

\* C9: an invocation started after an earlier one ended "protected" issues no
\* apply and no create; when the cluster was fresh before the first invocation
\* and every earlier invocation ended "protected", the totals over all
\* invocations are one apply and one create.
C9_SecondInvocationWritesNothing ==
  \A p \in Procs :
    prior_protected[p] >= 1 =>
      /\ writes[p] = <<>>
      /\ (initially_fresh /\ prior_protected[p] = invocations - 1)
           => (total_apply = 1 /\ total_create = 1)

\* A second invocation on the RUNNING cluster went through all its steps.
C9_Witness ==
  \E p \in Procs :
    /\ prior_protected[p] >= 1
    /\ initially_fresh
    /\ cluster_status[p] = "RUNNING"
    /\ pod_items[p] >= 1
    /\ deployments[p] >= 1
    /\ outcome[p] = "protected"
    /\ total_apply = 1
    /\ total_create = 1

Built(p) == DOMAIN falcon_deployment_manifest[p] # {}

\* The keys found anywhere under the node section
NodeKeys(node) ==
  DOMAIN node
    \cup (IF "advanced" \in DOMAIN node THEN DOMAIN node["advanced"] ELSE {})
    \cup (IF "gke" \in DOMAIN node THEN DOMAIN node["gke"] ELSE {})
    \cup (IF "resources" \in DOMAIN node
          THEN DOMAIN node["resources"] \cup DOMAIN node["resources"]["requests"] ELSE {})
    \cup (IF "tolerations" \in DOMAIN node
          THEN UNION {DOMAIN node["tolerations"][i] : i \in DOMAIN node["tolerations"]} ELSE {})

\* The configured strings found under the node section
NodeSettings(node) ==
  (IF "version" \in DOMAIN node THEN {node["version"]} ELSE {})
    \cup (IF "advanced" \in DOMAIN node
          THEN {node["advanced"][k] : k \in DOMAIN node["advanced"]} ELSE {})

\* C10: in a built manifest the tags are at spec.falcon.tags and nowhere under
\* spec.falconNodeSensor.node; the version and the advanced fields are under
\* the node section, not under spec.falcon nor at the top of spec;
\* spec.falcon is there exactly when tags are configured.
C10_TagsApartFromNodeFields ==
  \A p \in Procs :
    Built(p) =>
      LET spec == falcon_deployment_manifest[p]["spec"]
          node == spec["falconNodeSensor"]["node"]
      IN  /\ ("falcon" \in DOMAIN spec) <=> (FALCON_SENSOR_TAGS # "")
          /\ FALCON_SENSOR_TAGS # "" =>
               /\ DOMAIN spec["falcon"] = {"tags"}
               /\ spec["falcon"]["tags"] = FALCON_SENSOR_TAGS
               /\ FALCON_SENSOR_TAGS \notin NodeSettings(node)
          /\ NodeKeys(node) \cap {"tags", "falcon"} = {}
          /\ DOMAIN spec \cap {"version", "advanced", "autoUpdate", "updatePolicy", "tags"} = {}
          /\ FALCON_SENSOR_VERSION # "" => node["version"] = FALCON_SENSOR_VERSION
          /\ FALCON_AUTO_UPDATE # "off" => node["advanced"]["autoUpdate"] = FALCON_AUTO_UPDATE
          /\ FALCON_UPDATE_POLICY # "" => node["advanced"]["updatePolicy"] = FALCON_UPDATE_POLICY

\* A manifest built for autopilot with tags, version and both advanced fields set.
C10_Witness ==
  \E p \in Procs :
    /\ Built(p)
    /\ is_autopilot[p]
    /\ FALCON_SENSOR_TAGS # ""
    /\ FALCON_SENSOR_VERSION # ""
    /\ FALCON_AUTO_UPDATE # "off"
    /\ FALCON_UPDATE_POLICY # ""
    /\ "tags" \in DOMAIN falcon_deployment_manifest[p]["spec"]["falcon"]

\* C13: in every invocation, neither the FalconDeployment list call nor the
\* agent create call is issued before a pod listing of 'falcon-operator' has
\* returned a pod in phase Running, on the apply path and on the skip path.
C13_RunningPodBeforeAgentCalls ==
  \A p \in Procs :
    (\/ pc[p] \in {"list_deployments", "create"}
     \/ fd_response[p] # "none"
     \/ deployments[p] # -1
     \/ creates(p) >= 1) => running_listed[p]

\* The apply path taken to the create call, after a listing with a Running pod.
C13_Witness ==
  \E p \in Procs : writes[p] = <<"apply", "create">> /\ running_listed[p]

\* C15: in the readiness poll, every status fetch other than the first of an
\* invocation comes after a 60-second sleep taken since the previous fetch:
\* no two fetches follow each other without a sleep between them.
C15_SleepBeforeEveryLaterFetch ==
  [][\A p \in Procs :
       (fetches'[p] = fetches[p] + 1 /\ fetches[p] >= 1) => last_call[p] = "sleep"]_vars

\* C16: a 404 answer to the namespace read is treated as "not deployed" (the
\* pods are not listed by the check) and leads to exactly one apply call; any
\* other API error from the namespace read or from the pod list of the check
\* ends main by re-raising, with no apply call and no create call issued.
C16_NamespaceNotFoundElseRaise ==
  \A p \in Procs :
    /\ ns_response[p] = "404" =>
         /\ pod_items[p] = -1
         /\ applies(p) = (IF pc[p] = "apply" THEN 0 ELSE 1)
    /\ (ns_response[p] = "500" \/ raised_at[p] = "list_pods") =>
         /\ pc[p] = "done"
         /\ outcome[p] = "raised"
         /\ writes[p] = <<>>

\* On a fresh cluster a first invocation got 404 and applied once; the next
\* one got another API error from the namespace read and wrote nothing.
C16_Witness ==
  /\ initially_fresh
  /\ invocations = 2
  /\ total_apply = 1
  /\ ns_response[1] = "500"
  /\ writes[1] = <<>>

\* C17 as stated: a 404 answer to the custom-resource list is treated as an
\* empty list and leads to exactly one create call; any other API error from
\* the list is re-raised with no create call; a failure of the create call is
\* propagated out of main.
C17_NotFoundListCreatesOnce ==
  \A p \in Procs :
    /\ fd_response[p] = "404" =>
         /\ deployments[p] = 0
         /\ creates(p) = (IF pc[p] = "create" THEN 0 ELSE 1)
    /\ fd_response[p] = "500" =>
         /\ pc[p] = "done"
         /\ outcome[p] = "raised"
         /\ creates(p) = 0
    /\ raised_at[p] = "create" => (pc[p] = "done" /\ outcome[p] = "raised")

\* C17 amended: a 404 answer to the custom-resource list is treated as an
\* empty list and leads into the create branch, where exactly one create call
\* is issued unless looking up the FalconDeployment kind fails first, in which
\* case main re-raises with no create call; any other API error from the list
\* is re-raised with no create call; a failure in the create branch is
\* propagated out of main.
C17_NotFoundListEntersCreate ==
  \A p \in Procs :
    /\ fd_response[p] = "404" =>
         /\ deployments[p] = 0
         /\ pc[p] \in {"create", "done"}
         /\ creates(p) <= 1
         /\ pc[p] = "create" => creates(p) = 0
         /\ (pc[p] = "done" /\ creates(p) = 0) =>
              (outcome[p] = "raised" /\ raised_at[p] = "create")
    /\ fd_response[p] = "500" =>
         /\ pc[p] = "done"
         /\ outcome[p] = "raised"
         /\ creates(p) = 0
    /\ raised_at[p] = "create" => (pc[p] = "done" /\ outcome[p] = "raised")

\* The list answered 404 and the one create call went through.
C17_Witness ==
  \E p \in Procs :
    /\ fd_response[p] = "404"
    /\ creates(p) = 1
    /\ outcome[p] = "protected"
    /\ falcon_deployments = 1

\* The place of a step in the order of main's statements (lines 72-96):
\* 0 before the poll, 11 after the last step.
Position(s) ==
  CASE s = "poll" -> 1
    [] s = "download" -> 2
    [] s = "configure" -> 3
    [] s = "kube" -> 4
    [] s = "read_namespace" -> 5
    [] s = "list_pods" -> 6
    [] s = "apply" -> 7
    [] s = "wait_pods" -> 8
    [] s = "list_deployments" -> 9
    [] s = "create" -> 10
    [] s = "end" -> 11
    [] OTHER -> 0

\* The step invocation p is at, or the one at which it ended.
At(p) ==
  IF pc[p] # "done" THEN pc[p]
  ELSE IF outcome[p] = "raised" THEN raised_at[p]
  ELSE IF outcome[p] = "unmanageable" THEN "poll"
  ELSE "end"

\* What the steps of invocation p have left behind lies at or before place
\* at, and every step before at that no branch skips has left its mark.
InOrderUpTo(p, at) ==
  /\ fetches[p] >= 1 => at >= Position("poll")
  /\ downloads[p] >= 1 => at >= Position("download")
  /\ falcon_deployment_manifest[p] # NoManifest => at >= Position("configure")
  /\ ns_response[p] # "none" => at >= Position("read_namespace")
  /\ pod_items[p] # -1 => at >= Position("list_pods")
  /\ writes[p] # <<>> => at >= Position("apply")
  /\ running_listed[p] => at >= Position("wait_pods")
  /\ fd_response[p] # "none" => at >= Position("list_deployments")
  /\ creates(p) >= 1 => at >= Position("create")
  /\ at > Position("poll") => fetches[p] >= 1
  /\ at > Position("download") => downloads[p] >= 1
  /\ at > Position("configure") => falcon_deployment_manifest[p] # NoManifest
  /\ at > Position("read_namespace") => ns_response[p] # "none"
  /\ at > Position("wait_pods") => running_listed[p]
  /\ at > Position("list_deployments") => fd_response[p] # "none"

\* C18: the steps of main run in the fixed order poll, download, build, kube
\* clients, apply-or-skip, pod wait, custom-resource list, create; a step that
\* fails ends main by re-raising and no later step is executed (a failed
\* download: no apply, no create; a failed apply: no create); no step is run
\* twice and what a step has done is not undone.
C18_FailStopInOrder ==
  \A p \in Procs :
    /\ InOrderUpTo(p, Position(At(p)))
    /\ outcome[p] = "raised" <=> raised_at[p] # "none"
    /\ outcome[p] = "raised" => pc[p] = "done"
    /\ raised_at[p] = "download" => writes[p] = <<>>
    /\ raised_at[p] = "apply" => creates(p) = 0
    /\ downloads[p] <= 1 /\ applies(p) <= 1 /\ creates(p) <= 1
    /\ (applies(p) = 1 /\ raised_at[p] \notin {"none", "apply"}) => namespace_exists

\* The custom-resource list failed after a successful apply: main raised, the
\* create call was not made, and the namespace the apply made is still there.
C18_Witness ==
  \E p \in Procs :
    /\ raised_at[p] = "list_deployments"
    /\ fresh[p]
    /\ applies(p) = 1
    /\ creates(p) = 0
    /\ namespace_exists

\* C20: for every sequence of cluster statuses, RECONCILING included, an
\* invocation downloads the operator manifest, applies or creates only if one
\* of its status fetches returned RUNNING (the last one, as the poll ends on it).
C20_DeploymentOnlyAfterRunning ==
  \A p \in Procs :
    (downloads[p] >= 1 \/ writes[p] # <<>>) => cluster_status[p] = "RUNNING"

\* C19: in a built manifest the node section has 'advanced' exactly when the
\* auto-update mode is not "off" or the update policy is non-empty; 'advanced'
\* then has autoUpdate exactly when the mode is not "off" and updatePolicy
\* exactly when the policy is non-empty; the node section has 'version'
\* exactly when a sensor version is pinned; the autopilot merge adds its four
\* entries and leaves 'advanced' and 'version' with the configured values.
C19_AdvancedAndVersionInNode ==
  \A p \in Procs :
    Built(p) =>
      LET node == falcon_deployment_manifest[p]["spec"]["falconNodeSensor"]["node"]
      IN  /\ ("advanced" \in DOMAIN node) <=>
               (FALCON_AUTO_UPDATE # "off" \/ FALCON_UPDATE_POLICY # "")
          /\ "advanced" \in DOMAIN node =>
               LET advanced == node["advanced"]
               IN  /\ DOMAIN advanced \subseteq {"autoUpdate", "updatePolicy"}
                   /\ ("autoUpdate" \in DOMAIN advanced) <=> (FALCON_AUTO_UPDATE # "off")
                   /\ ("updatePolicy" \in DOMAIN advanced) <=> (FALCON_UPDATE_POLICY # "")
                   /\ "autoUpdate" \in DOMAIN advanced => advanced["autoUpdate"] = FALCON_AUTO_UPDATE
                   /\ "updatePolicy" \in DOMAIN advanced =>
                        advanced["updatePolicy"] = FALCON_UPDATE_POLICY
          /\ ("version" \in DOMAIN node) <=> (FALCON_SENSOR_VERSION # "")
          /\ "version" \in DOMAIN node => node["version"] = FALCON_SENSOR_VERSION
          /\ DOMAIN node \ {"advanced", "version"} =
               (IF is_autopilot[p] THEN DOMAIN autopilot_config ELSE {})

\* A manifest built for autopilot with a mode, no policy and a pinned version.
C19_Witness ==
  \E p \in Procs :
    /\ Built(p)
    /\ is_autopilot[p]
    /\ FALCON_AUTO_UPDATE = "force"
    /\ FALCON_UPDATE_POLICY = ""
    /\ FALCON_SENSOR_VERSION # ""
    /\ DOMAIN falcon_deployment_manifest[p]["spec"]["falconNodeSensor"]["node"]["advanced"]
         = {"autoUpdate"}

SomePodRunning == \E i \in 1..Len(pods) : pods[i] = "Running"

====
